---- MODULE Spec2Model ----
(***************************************************************************)
(* Luna VS Code extension (editors/vscode/src/extension.ts): the lifecycle *)
(* of the language client held in the module-level variable `client`.      *)
(*                                                                         *)
(* The extension host runs one handler at a time.  A handler runs until it *)
(* returns or reaches an `await`; the continuation of an `await` is a      *)
(* microtask, and no new event (command, configuration notification,       *)
(* promise settlement coming from the subprocess) is dispatched while a    *)
(* continuation is queued.  Each action below is one such run.             *)
(*                                                                         *)
(* Continuations run in the order in which they were queued: when          *)
(* client.stop() settles, the handlers awaiting it continue in the order   *)
(* in which they suspended, and what such a continuation queues (the rest  *)
(* of restartLspClient) runs after them.                                   *)
(*                                                                         *)
(* The LanguageClient class (vscode-languageclient) is an external         *)
(* collaborator.  The model assumes of it that start() and stop() return   *)
(* promises that resolve or reject, and that stop() does not resolve while *)
(* the start of the same client is still pending (it rejects, or resolves  *)
(* later).                                                                 *)
(***************************************************************************)
EXTENDS Naturals, Sequences, FiniteSets

\* Bounds of the model.
MaxClients == 2    \* LanguageClient objects that may be in use at once
MaxWaiters == 2    \* handlers that may be suspended on client.stop() at once

ClientIds == 1 .. MaxClients

VARIABLES
    phase,          \* "loaded" | "active" | "deactivating" (the promise deactivate
                    \* returned is pending) | "deactivated" (deactivate returned
                    \* undefined or its promise resolved) | "deactivateRejected"
    enabled,        \* value of the setting luna.lsp.enabled
    activeLang,     \* language of the active editor: "none" | "luna" | "other"
    client,         \* the variable `client`: 0 is undefined, else a client id
    clients,        \* the LanguageClient objects constructed so far
    waiters,        \* handlers suspended in or after stopLspClient, in order
    statusText,     \* statusBarItem.text
    statusTooltip,  \* statusBarItem.tooltip
    visible,        \* whether statusBarItem is shown
    last            \* the handler run just executed and its outward effects

vars == << phase, enabled, activeLang, client, clients, waiters,
           statusText, statusTooltip, visible, last >>

\* Texts written to the status bar item.
TextMoon  == "$(moon) Luna"
TextSpin  == "$(sync~spin) Luna"
TextError == "$(error) Luna"
TipInitial  == "Luna Language Server"
TipStarting == "Luna LSP: Starting..."
TipReady    == "Luna LSP: Ready (Pure Luna Engine)"
TipError    == "Luna LSP: Error"
TipStopped  == "Luna LSP: Stopped"

\* A LanguageClient that has not been constructed yet.
NoClient == [start |-> "none", proc |-> "none"]

\* A LanguageClient right after `new LanguageClient(...)` and `client.start()`:
\* its start promise is pending and its subprocess has been spawned.
NewClient == [start |-> "pending", proc |-> "alive"]

\* Identifiers not in use, and the one the next LanguageClient gets.
FreeIds == {c \in ClientIds : clients[c] = NoClient}
FreeId == CHOOSE c \in FreeIds : \A d \in FreeIds : c <= d

\* A LanguageClient whose subprocess is gone and that neither `client` nor a
\* handler awaiting its stop() refers to takes no further part: its identifier
\* is free again.  cl, cur and ws are the values of clients, client and waiters.
Collect(cl, cur, ws) ==
    [c \in ClientIds |->
        IF /\ cl[c].proc \in {"stopped", "exited"}
           /\ c # cur
           /\ \A i \in 1 .. Len(ws) : ws[i].c # c
          THEN NoClient
          ELSE cl[c]]

\* A LanguageClient is constructed in this step.
Spawned == \E c \in ClientIds : clients[c] = NoClient /\ clients'[c] = NewClient

\* Restart handlers that have not yet reached their startLspClient call.
RestartsInFlight ==
    Cardinality({i \in 1 .. Len(waiters) : waiters[i].kind = "restart"})

\* A handler run (or the event) and the effects it had outside the variables.
Did(op, fx) == [op |-> op, fx |-> fx]

\* A continuation is queued: nothing else is dispatched before it has run.
MicrotaskPending ==
    \E i \in 1 .. Len(waiters) : waiters[i].pc \in {"stopResolved", "afterStop"}

\* The queued continuation that runs next: continuations of `await client.stop()`
\* first, in order of suspension, then the continuations they queued.
FirstWith(pc) ==
    CHOOSE i \in 1 .. Len(waiters) :
        /\ waiters[i].pc = pc
        /\ \A j \in 1 .. i - 1 : waiters[j].pc # pc
NextMicrotask ==
    IF \E i \in 1 .. Len(waiters) : waiters[i].pc = "stopResolved"
      THEN FirstWith("stopResolved")
      ELSE FirstWith("afterStop")

\* waiters without its i-th element.
RemoveAt(s, i) == SubSeq(s, 1, i - 1) \o SubSeq(s, i + 1, Len(s))

\* The lifecycle state as the controller records it: the handle `client` and the
\* outcome of that client's start promise.
State ==
    IF client = 0 THEN "Stopped"
    ELSE IF clients[client].start = "pending" THEN "Starting"
    ELSE IF clients[client].start = "ok" THEN "Running"
    ELSE "Error"

\* Sessions created and not yet stopped whose subprocess is alive.
LiveSet == {c \in ClientIds : clients[c].proc = "alive"}
Live == Cardinality(LiveSet)

TypeOK ==
    /\ phase \in {"loaded", "active", "deactivating", "deactivated", "deactivateRejected"}
    /\ enabled \in BOOLEAN
    /\ activeLang \in {"none", "luna", "other"}
    /\ client \in 0 .. MaxClients
    /\ clients \in [ClientIds -> [start : {"none", "pending", "ok", "failed"},
                                  proc : {"none", "alive", "exited", "stopped"}]]
    /\ Len(waiters) <= MaxWaiters
    /\ \A i \in 1 .. Len(waiters) :
          /\ waiters[i].kind \in {"config", "restart", "deactivate"}
          /\ waiters[i].pc \in {"awaitStop", "stopResolved", "afterStop"}
          /\ waiters[i].c \in 0 .. MaxClients
          /\ waiters[i].pc = "awaitStop" => waiters[i].c = client /\ client # 0
    /\ statusText \in {"", TextMoon, TextSpin, TextError}
    /\ statusTooltip \in {"", TipInitial, TipStarting, TipReady, TipError, TipStopped}
    /\ visible \in BOOLEAN

Init ==
    /\ phase = "loaded"
    /\ enabled \in BOOLEAN
    /\ activeLang \in {"none", "luna", "other"}
    /\ client = 0
    /\ clients = [c \in ClientIds |-> NoClient]
    /\ waiters = << >>
    /\ statusText = ""
    /\ statusTooltip = ""
    /\ visible = FALSE
    /\ last = Did("load", {})

\* startLspClient: constructs a client, assigns it to `client`, sets the status
\* bar to the starting form and calls client.start().
startLspClient ==
    /\ FreeIds # {}
    /\ client' = FreeId
    /\ clients' = Collect([clients EXCEPT ![FreeId] = NewClient], FreeId, waiters)
    /\ statusText' = TextSpin
    /\ statusTooltip' = TipStarting

\* activate: creates the status bar item, starts the client when
\* luna.lsp.enabled is set, registers the handlers, shows the item when the
\* active editor holds a Luna document.
activate ==
    /\ phase = "loaded"
    /\ phase' = "active"
    /\ IF enabled
         THEN /\ startLspClient
              /\ last' = Did("activate", {"spawn"})
         ELSE /\ statusText' = TextMoon
              /\ statusTooltip' = TipInitial
              /\ last' = Did("activate", {})
              /\ UNCHANGED << client, clients >>
    /\ visible' = (activeLang = "luna")
    /\ UNCHANGED << enabled, activeLang, waiters >>

\* A restart is dispatched only if an identifier will be free for the client it
\* constructs: one per restart in flight, counting the identifier of the
\* current client, which is free once the stop they await has resolved.
CanRestart ==
    Cardinality(FreeIds) + (IF client # 0 THEN 1 ELSE 0) > RestartsInFlight

\* A handler suspended on `await client.stop()`: stopLspClient called from the
\* configuration handler (kind "config") or from restartLspClient (kind
\* "restart"), or the promise deactivate returned (kind "deactivate").  c is the
\* client whose stop() it awaits (0 when it awaits none); for a restart, `at`
\* records the lifecycle state in which the command was invoked.
Waiter(kind, pc, c) ==
    [kind |-> kind, pc |-> pc, c |-> c,
     at |-> IF kind = "restart" THEN State ELSE "-"]

\* A configuration handler without the affectsConfiguration test: it compares
\* the setting with `client` on every notification.
onDidChangeConfiguration_anyKey(key, val) ==
    /\ phase = "active"
    /\ ~MicrotaskPending
    /\ enabled' = IF key = "lsp.enabled" THEN val ELSE enabled
    /\ IF enabled' /\ client = 0
         THEN /\ startLspClient
              /\ last' = Did("config:" \o key, {"spawn"})
              /\ UNCHANGED waiters
         ELSE IF ~enabled' /\ client # 0
         THEN /\ Len(waiters) < MaxWaiters
              /\ waiters' = Append(waiters, Waiter("config", "awaitStop", client))
              /\ last' = Did("config:" \o key, {"stopCall"})
              /\ UNCHANGED << client, clients, statusText, statusTooltip >>
         ELSE /\ last' = Did("config:" \o key, {})
              /\ UNCHANGED << client, clients, waiters, statusText, statusTooltip >>
    /\ UNCHANGED << phase, activeLang, visible >>

\* The onDidChangeConfiguration handler, for an event that affects `key` and
\* leaves luna.lsp.enabled at `val`.  stopLspClient() is called and not awaited:
\* the handler returns while stopLspClient is suspended on client.stop().
onDidChangeConfiguration(key, val) ==
    /\ phase = "active"
    /\ ~MicrotaskPending
    /\ enabled' = IF key = "lsp.enabled" THEN val ELSE enabled
    /\ IF key = "lsp.enabled" /\ enabled' /\ client = 0
         THEN /\ startLspClient
              /\ last' = Did("config:lsp.enabled", {"spawn"})
              /\ UNCHANGED waiters
         ELSE IF key = "lsp.enabled" /\ ~enabled' /\ client # 0
         THEN /\ Len(waiters) < MaxWaiters
              /\ waiters' = Append(waiters, Waiter("config", "awaitStop", client))
              /\ last' = Did("config:lsp.enabled", {"stopCall"})
              /\ UNCHANGED << client, clients, statusText, statusTooltip >>
         ELSE /\ last' = Did("config:" \o key, {})
              /\ UNCHANGED << client, clients, waiters, statusText, statusTooltip >>
    /\ UNCHANGED << phase, activeLang, visible >>

\* The luna.restartLsp command up to its first suspension: restartLspClient
\* logs, sets the spinner text and awaits stopLspClient(), which awaits
\* client.stop() when `client` is set and returns at once otherwise.
restartLspClient ==
    /\ phase = "active"
    /\ ~MicrotaskPending
    /\ Len(waiters) < MaxWaiters
    /\ CanRestart
    /\ statusText' = TextSpin
    /\ IF client # 0
         THEN /\ waiters' = Append(waiters, Waiter("restart", "awaitStop", client))
              /\ last' = Did("restartLsp", {"logRestarting", "stopCall"})
         ELSE /\ waiters' = Append(waiters, Waiter("restart", "afterStop", 0))
              /\ last' = Did("restartLsp", {"logRestarting"})
    /\ UNCHANGED << phase, enabled, activeLang, client, clients, statusTooltip, visible >>

\* client.stop() of client c resolves: the subprocess has terminated.  Every
\* handler awaiting it gets its continuation queued; a pending deactivation
\* (which returned the promise to the editor) completes.
ClientStopResolves(c) ==
    /\ ~MicrotaskPending
    /\ \E i \in 1 .. Len(waiters) : waiters[i].pc = "awaitStop" /\ waiters[i].c = c
    /\ clients[c].start # "pending"
    /\ LET woken == [i \in 1 .. Len(waiters) |->
                       IF waiters[i].pc = "awaitStop" /\ waiters[i].c = c
                         THEN [waiters[i] EXCEPT !.pc = "stopResolved", !.c = 0]
                         ELSE waiters[i]]
           IsDeact(w) == w.kind = "deactivate" /\ w.pc = "stopResolved"
       IN /\ waiters' = SelectSeq(woken, LAMBDA w : ~IsDeact(w))
          /\ phase' = IF \E i \in 1 .. Len(woken) : IsDeact(woken[i])
                        THEN "deactivated" ELSE phase
    /\ clients' = Collect([clients EXCEPT ![c].proc = "stopped"], client, waiters')
    /\ last' = Did("stopResolved", {})
    /\ UNCHANGED << enabled, activeLang, client, statusText, statusTooltip, visible >>

\* client.stop() rejects for the i-th suspended handler.  Nothing catches it:
\* stopLspClient throws at its await, and so does restartLspClient.
ClientStopRejects(i) ==
    /\ ~MicrotaskPending
    /\ i \in 1 .. Len(waiters)
    /\ waiters[i].pc = "awaitStop"
    /\ waiters' = RemoveAt(waiters, i)
    /\ phase' = IF waiters[i].kind = "deactivate" THEN "deactivateRejected" ELSE phase
    /\ clients' = Collect(clients, client, waiters')
    /\ last' = Did("stopRejected", {waiters[i].kind \o "Rejected"})
    /\ UNCHANGED << enabled, activeLang, client, statusText, statusTooltip, visible >>

\* stopLspClient after its await: clears `client`, logs, sets the stopped form.
stopLspClient(i) ==
    /\ MicrotaskPending
    /\ i = NextMicrotask
    /\ waiters[i].pc = "stopResolved"
    /\ client' = 0
    /\ statusText' = TextMoon
    /\ statusTooltip' = TipStopped
    /\ waiters' = IF waiters[i].kind = "restart"
                    THEN [waiters EXCEPT ![i].pc = "afterStop"]
                    ELSE RemoveAt(waiters, i)
    /\ clients' = Collect(clients, 0, waiters')
    /\ last' = Did("stopLspClient", {"logStopped"})
    /\ UNCHANGED << phase, enabled, activeLang, visible >>

\* A restart that starts a client only when luna.lsp.enabled is true.
restartThenStart_ifEnabled(i) ==
    /\ MicrotaskPending
    /\ i = NextMicrotask
    /\ waiters[i].pc = "afterStop"
    /\ IF enabled
         THEN /\ startLspClient
              /\ last' = Did("restartStart", {"spawn"})
         ELSE /\ last' = Did("restartStart", {})
              /\ UNCHANGED << client, clients, statusText, statusTooltip >>
    /\ waiters' = RemoveAt(waiters, i)
    /\ UNCHANGED << phase, enabled, activeLang, visible >>

\* restartLspClient after `await stopLspClient()`: calls startLspClient.
restartThenStart(i) ==
    /\ MicrotaskPending
    /\ i = NextMicrotask
    /\ waiters[i].pc = "afterStop"
    /\ startLspClient
    /\ waiters' = RemoveAt(waiters, i)
    /\ last' = Did("restartStart", {"spawn"})
    /\ UNCHANGED << phase, enabled, activeLang, visible >>

\* A then callback that logs and leaves the status bar in the starting form.
onStartResolved_keepsBusy ==
    /\ last' = Did("startResolved", {"logStarted", "statusMessage"})
    /\ UNCHANGED << statusText, statusTooltip >>

\* The callback passed to client.start().then(...).
onStartResolved ==
    /\ statusText' = TextMoon
    /\ statusTooltip' = TipReady
    /\ last' = Did("startResolved", {"logStarted", "statusMessage"})

\* A catch callback that only logs: no notification, no error form.
onStartRejected_silent ==
    /\ last' = Did("startRejected", {"logFailed"})
    /\ UNCHANGED << statusText, statusTooltip >>

\* The callback passed to .catch(...).
onStartRejected ==
    /\ statusText' = TextError
    /\ statusTooltip' = TipError
    /\ last' = Did("startRejected", {"logFailed", "errorMessage"})

\* client.start() of client c resolves: the server is ready.
StartResolves(c) ==
    /\ ~MicrotaskPending
    /\ clients[c].start = "pending" /\ clients[c].proc = "alive"
    /\ clients' = [clients EXCEPT ![c].start = "ok"]
    /\ onStartResolved
    /\ UNCHANGED << phase, enabled, activeLang, client, waiters, visible >>

\* A rejected start after which the failed client is dropped from `client`.
StartRejects_clearsHandle(c) ==
    /\ ~MicrotaskPending
    /\ clients[c].start = "pending" /\ clients[c].proc = "alive"
    /\ client' = IF c = client /\ \A i \in 1 .. Len(waiters) : waiters[i].c # c
                   THEN 0 ELSE client
    /\ clients' = Collect([clients EXCEPT ![c] = [start |-> "failed", proc |-> "exited"]],
                          client', waiters)
    /\ onStartRejected
    /\ UNCHANGED << phase, enabled, activeLang, waiters, visible >>

\* client.start() of client c rejects: spawn error or exit before readiness.
StartRejects(c) ==
    /\ ~MicrotaskPending
    /\ clients[c].start = "pending" /\ clients[c].proc = "alive"
    /\ clients' = Collect([clients EXCEPT ![c] = [start |-> "failed", proc |-> "exited"]],
                          client, waiters)
    /\ onStartRejected
    /\ UNCHANGED << phase, enabled, activeLang, client, waiters, visible >>

\* The subprocess of client c exits on its own after the server was ready.
\* The extension registers no handler for it.
Crash(c) ==
    /\ ~MicrotaskPending
    /\ clients[c].start = "ok" /\ clients[c].proc = "alive"
    /\ clients' = Collect([clients EXCEPT ![c].proc = "exited"], client, waiters)
    /\ last' = Did("crash", {})
    /\ UNCHANGED << phase, enabled, activeLang, client, waiters,
                    statusText, statusTooltip, visible >>

\* formatCurrentFile without the `if (client)` test: formats whenever the
\* document is a Luna document.
formatCurrentFile_noClientTest ==
    /\ phase = "active"
    /\ ~MicrotaskPending
    /\ last' = Did("formatFile",
                   IF activeLang = "none" THEN {"warnNoEditor"}
                   ELSE IF activeLang # "luna" THEN {"warnNotLuna"}
                   ELSE {"formatDocument", "logFormatted"})
    /\ UNCHANGED << phase, enabled, activeLang, client, clients, waiters,
                    statusText, statusTooltip, visible >>

\* The luna.formatFile command.  Its only await is on the editor's
\* format-document command, after which it appends one line to the output
\* channel; it reads `client` before the await and writes no variable.
formatCurrentFile ==
    /\ phase = "active"
    /\ ~MicrotaskPending
    /\ last' = Did("formatFile",
                   IF activeLang = "none" THEN {"warnNoEditor"}
                   ELSE IF activeLang # "luna" THEN {"warnNotLuna"}
                   ELSE IF client # 0 THEN {"formatDocument", "logFormatted"}
                   ELSE {"warnLspNotRunning"})
    /\ UNCHANGED << phase, enabled, activeLang, client, clients, waiters,
                    statusText, statusTooltip, visible >>

\* A handler run whose effects are kept in program order as well.
DidSteps(op, steps) ==
    [op |-> op, fx |-> {steps[i] : i \in 1 .. Len(steps)}, steps |-> steps]

\* A handler that sends the command line to a terminal before it saves.
TerminalSteps_sendsFirst(log) ==
    << log, "createTerminal", "showTerminal", "sendText", "save" >>

\* The effects of a handler that saves the document and sends a command line
\* to a terminal it creates, in program order.
TerminalSteps(log) ==
    << "save", log, "createTerminal", "showTerminal", "sendText" >>

\* A command that saves the active document before testing its language.
TerminalCommand_savesFirst(op, steps) ==
    /\ phase = "active"
    /\ ~MicrotaskPending
    /\ last' = IF activeLang = "none" THEN Did(op, {"warnNoEditor"})
               ELSE IF activeLang # "luna" THEN Did(op, {"save", "warnNotLuna"})
               ELSE DidSteps(op, steps)
    /\ UNCHANGED << phase, enabled, activeLang, client, clients, waiters,
                    statusText, statusTooltip, visible >>

\* The common shape of luna.run, luna.build and luna.check: warn and return
\* without an active editor or with a document that is not a Luna document;
\* otherwise save the document, log, create a terminal, show it and send the
\* command line.  The only await is on document.save(); the code after it
\* reads the configured path and writes no variable.
TerminalCommand(op, steps) ==
    /\ phase = "active"
    /\ ~MicrotaskPending
    /\ last' = IF activeLang = "none" THEN Did(op, {"warnNoEditor"})
               ELSE IF activeLang # "luna" THEN Did(op, {"warnNotLuna"})
               ELSE DidSteps(op, steps)
    /\ UNCHANGED << phase, enabled, activeLang, client, clients, waiters,
                    statusText, statusTooltip, visible >>

runCurrentFile ==
    TerminalCommand("run", TerminalSteps("logRun"))

\* buildCurrentFile and checkCurrentFile also reveal the output channel.
buildCurrentFile ==
    TerminalCommand("build", TerminalSteps("logBuild") \o << "showOutput" >>)

checkCurrentFile ==
    TerminalCommand("check", TerminalSteps("logCheck") \o << "showOutput" >>)

\* A focus handler that shows the item for a Luna document and never hides it.
onDidChangeActiveTextEditor_neverHides(lang) ==
    /\ phase = "active"
    /\ ~MicrotaskPending
    /\ activeLang' = lang
    /\ visible' = (visible \/ lang = "luna")
    /\ last' = Did("focus", {})
    /\ UNCHANGED << phase, enabled, client, clients, waiters,
                    statusText, statusTooltip >>

\* The onDidChangeActiveTextEditor handler.
onDidChangeActiveTextEditor(lang) ==
    /\ phase = "active"
    /\ ~MicrotaskPending
    /\ activeLang' = lang
    /\ visible' = (lang = "luna")
    /\ last' = Did("focus", {})
    /\ UNCHANGED << phase, enabled, client, clients, waiters,
                    statusText, statusTooltip >>

\* deactivate: logs and returns client.stop() when `client` is set.
deactivate ==
    /\ phase = "active"
    /\ ~MicrotaskPending
    /\ IF client # 0
         THEN /\ Len(waiters) < MaxWaiters
              /\ waiters' = Append(waiters, Waiter("deactivate", "awaitStop", client))
              /\ phase' = "deactivating"
              /\ last' = Did("deactivate", {"logDeactivating", "stopCall"})
         ELSE /\ phase' = "deactivated"
              /\ last' = Did("deactivate", {"logDeactivating"})
              /\ UNCHANGED waiters
    /\ UNCHANGED << enabled, activeLang, client, clients, statusText, statusTooltip, visible >>

\* Every client was pushed to context.subscriptions, which the editor disposes
\* once deactivate has been called: a client that is running and whose stop()
\* no handler awaits is stopped by that disposal, at some later time.
SubscriptionDisposed(c) ==
    /\ phase \in {"deactivating", "deactivated", "deactivateRejected"}
    /\ ~MicrotaskPending
    /\ clients[c].start = "ok" /\ clients[c].proc = "alive"
    /\ \A i \in 1 .. Len(waiters) : waiters[i].c # c
    /\ clients' = Collect([clients EXCEPT ![c].proc = "stopped"], client, waiters)
    /\ last' = Did("subscriptionDisposed", {})
    /\ UNCHANGED << phase, enabled, activeLang, client, waiters,
                    statusText, statusTooltip, visible >>

Next ==
    \/ activate
    \/ \E key \in {"lsp.enabled", "path"}, val \in BOOLEAN : onDidChangeConfiguration(key, val)
    \/ restartLspClient
    \/ \E c \in ClientIds : ClientStopResolves(c)
    \/ \E i \in 1 .. MaxWaiters : ClientStopRejects(i)
    \/ \E i \in 1 .. MaxWaiters : stopLspClient(i)
    \/ \E i \in 1 .. MaxWaiters : restartThenStart(i)
    \/ \E c \in ClientIds : StartResolves(c)
    \/ \E c \in ClientIds : StartRejects(c)
    \/ \E c \in ClientIds : Crash(c)
    \/ formatCurrentFile
    \/ \E lang \in {"none", "luna", "other"} : onDidChangeActiveTextEditor(lang)
    \/ runCurrentFile
    \/ buildCurrentFile
    \/ checkCurrentFile
    \/ deactivate
    \/ \E c \in ClientIds : SubscriptionDisposed(c)

Spec == Init /\ [][Next]_vars

\* The extension driven by configuration notifications and focus changes
\* only, with a client library that never fails: no luna.restartLsp, no
\* rejected start or stop, no exit of the subprocess, no deactivation.
ToggleNext ==
    \/ activate
    \/ \E key \in {"lsp.enabled", "path"}, val \in BOOLEAN : onDidChangeConfiguration(key, val)
    \/ \E c \in ClientIds : ClientStopResolves(c)
    \/ \E i \in 1 .. MaxWaiters : stopLspClient(i)
    \/ \E c \in ClientIds : StartResolves(c)
    \/ \E lang \in {"none", "luna", "other"} : onDidChangeActiveTextEditor(lang)

ToggleSpec == Init /\ [][ToggleNext]_vars

(***************************************************************************)
(* The diagnostics middleware of the client options.  A diagnostic is a    *)
(* record; `source` is optional, so a diagnostic without one is a record   *)
(* without that field.                                                     *)
(***************************************************************************)
MaxDiags == 2

Messages == {"unused variable", "moved value"}
Severities == {"error", "warning"}
Sources == {"", "borrow_checker"}

Diagnostics ==
    [message : Messages, severity : Severities]
        \cup [message : Messages, severity : Severities, source : Sources]

DiagnosticLists ==
    UNION {[1 .. n -> Diagnostics] : n \in 0 .. MaxDiags}

\* d.source || 'luna': a missing source and the empty string are both falsy.
SourceOrLuna(d) ==
    IF "source" \in DOMAIN d /\ d.source # "" THEN d.source ELSE "luna"

\* A tagging that sets the source of every diagnostic to 'luna'.
Tagged_overwrites(d) ==
    [f \in DOMAIN d \cup {"source"} |-> IF f = "source" THEN "luna" ELSE d[f]]

\* ({...d, source: d.source || 'luna'})
Tagged(d) ==
    [f \in DOMAIN d \cup {"source"} |->
        IF f = "source" THEN SourceOrLuna(d) ELSE d[f]]

\* A map that forwards the diagnostics in reverse order.
taggedDiagnostics_reversed(diagnostics) ==
    [i \in 1 .. Len(diagnostics) |-> Tagged(diagnostics[Len(diagnostics) + 1 - i])]

\* diagnostics.map(d => ...)
taggedDiagnostics(diagnostics) ==
    [i \in 1 .. Len(diagnostics) |-> Tagged(diagnostics[i])]

\* The server of the running client publishes a list of diagnostics; the
\* middleware runs on each notification before the next one is delivered.
publishDiagnostics(diagnostics) ==
    /\ State = "Running"
    /\ last.op # "publishDiagnostics"
    /\ last' = [op |-> "publishDiagnostics", fx |-> {},
                diagnostics |-> diagnostics]
    /\ UNCHANGED << phase, enabled, activeLang, client, clients, waiters,
                    statusText, statusTooltip, visible >>

\* handleDiagnostics: tags the published list and hands it to next(...).
handleDiagnostics ==
    /\ last.op = "publishDiagnostics"
    /\ last' = [op |-> "handleDiagnostics", fx |-> {"next"},
                diagnostics |-> last.diagnostics,
                forwarded |-> taggedDiagnostics(last.diagnostics)]
    /\ UNCHANGED << phase, enabled, activeLang, client, clients, waiters,
                    statusText, statusTooltip, visible >>

\* The state after activation with luna.lsp.enabled true, a Luna document in
\* the active editor, and the resolution of the client's start: the middleware
\* runs for a running client.
RelayInit ==
    /\ phase = "active"
    /\ enabled = TRUE
    /\ activeLang = "luna"
    /\ client = 1
    /\ clients = [c \in ClientIds |->
                    IF c = 1 THEN [start |-> "ok", proc |-> "alive"] ELSE NoClient]
    /\ waiters = << >>
    /\ statusText = TextMoon
    /\ statusTooltip = TipReady
    /\ visible = (activeLang = "luna")
    /\ last = Did("startResolved", {"logStarted", "statusMessage"})

RelayNext ==
    \/ \E diagnostics \in DiagnosticLists : publishDiagnostics(diagnostics)
    \/ handleDiagnostics

RelaySpec == RelayInit /\ [][RelayNext]_vars

(***************************************************************************)
(* Claims                                                                  *)
(***************************************************************************)

\* C1: in every reachable state at most one language-server session that has
\* been created and not yet stopped has a live subprocess.
C1_AtMostOneLiveSession == Live <= 1

\* C2: when a restart has run to its end, the controller holds the one new
\* session, on its way from Starting to Running or Error, the state is not
\* Stopped, and no second live session exists; a restart ended by a failed stop
\* does not leave the state Stopped either.
C2_RestartEndsWithOneSession ==
    /\ (last.op = "restartStart") => (State = "Starting" /\ Live <= 1)
    /\ ("restartRejected" \in last.fx) => (State # "Stopped" /\ Live <= 1)

\* C3: a restart issued in state Running goes Running, Stopped, Starting in that
\* order: the step in which it constructs the new session starts in state
\* Stopped with no live subprocess left, and ends in state Starting.
C3_RestartStartsFromStopped ==
    [][(last'.op = "restartStart" /\ MicrotaskPending
          /\ waiters[NextMicrotask].at = "Running")
         => (State = "Stopped" /\ Live = 0 /\ State' = "Starting")]_vars

\* C4: a start request arriving in state Starting or Running is a no-op: no
\* step taken from state Starting or Running constructs a client.
C4_NoSpawnWhileStartingOrRunning ==
    [][Spawned => (State \notin {"Starting", "Running"})]_vars

\* C5: a configuration notification affecting lsp.enabled whose value is true
\* starts a session whenever the state is Stopped or Error.
C5_EnableStartsFromStoppedOrError ==
    [][(last'.op = "config:lsp.enabled" /\ enabled' /\ State \in {"Stopped", "Error"})
         => (Spawned /\ State' = "Starting")]_vars

\* C6: when lsp.enabled goes from true to false in state Running, the session
\* is stopped (subprocess terminated, state Stopped) when the configuration
\* handler returns.
C6_DisableStopsBeforeReturn ==
    [][(last'.op = "config:lsp.enabled" /\ enabled /\ ~enabled' /\ State = "Running")
         => (State' = "Stopped" /\ Live' = 0)]_vars

\* C7: the format command runs the editor's format-document action only in
\* state Running and with no stop in progress.
C7_FormatOnlyWhenRunning ==
    ("formatDocument" \in last.fx)
        => /\ State = "Running"
           /\ \A i \in 1 .. Len(waiters) : waiters[i].pc # "awaitStop"

\* C8: the format command on a Luna document in state Stopped runs no format
\* action, shows the warning, and leaves the state Stopped with no session
\* created and no handler suspended.
C8_FormatWhileStopped ==
    [][(last'.op = "formatFile" /\ activeLang = "luna" /\ State = "Stopped")
         => /\ "formatDocument" \notin last'.fx
            /\ "warnLspNotRunning" \in last'.fx
            /\ State' = "Stopped"
            /\ clients' = clients
            /\ waiters' = waiters]_vars

\* C8 witness: the format command has just run on a Luna document in state
\* Stopped and warned.
C8_Witness ==
    /\ last.op = "formatFile"
    /\ activeLang = "luna"
    /\ State = "Stopped"
    /\ "warnLspNotRunning" \in last.fx

\* C9: when a start attempt fails, the error notification is shown and the
\* status bar takes the error form, the handle is kept so that the state of the
\* failed session is Error, and no client is constructed in that step; a client
\* is only ever constructed by activation, by a configuration notification
\* affecting lsp.enabled, or by restart.
C9_StartFailureNoRetry ==
    [][/\ (last'.op = "startRejected")
            => /\ "errorMessage" \in last'.fx
               /\ statusText' = TextError
               /\ statusTooltip' = TipError
               /\ ~Spawned
               /\ client' = client
               /\ \A c \in ClientIds :
                     (clients[c].start = "pending" /\ clients'[c].start = "failed"
                         /\ client = c) => State' = "Error"
       /\ Spawned
            => last'.op \in {"activate", "config:lsp.enabled", "restartStart"}]_vars

\* C9 witness: the start of the current session has just failed, the state is
\* Error and the notification was shown.
C9_Witness ==
    /\ last.op = "startRejected"
    /\ State = "Error"
    /\ "errorMessage" \in last.fx
    /\ statusTooltip = TipError

\* C10: when the subprocess of the current session exits after the state has
\* reached Running, the state and the status bar go to Error in that step and no
\* client is constructed.
C10_CrashGoesToError ==
    [][(last'.op = "crash" /\ client # 0 /\ State = "Running"
          /\ clients[client].proc = "alive" /\ clients'[client].proc = "exited")
         => (State' = "Error" /\ statusTooltip' = TipError /\ ~Spawned)]_vars

\* C11: when client.stop() rejects for stopLspClient (called by the
\* configuration handler or by restart), the controller still clears the handle,
\* the state becomes Stopped, and the failure is logged.
C11_StopFailureStillStops ==
    [][(last'.op = "stopRejected"
          /\ last'.fx \cap {"configRejected", "restartRejected"} # {})
         => /\ client' = 0
            /\ State' = "Stopped"
            /\ "logStopFailed" \in last'.fx]_vars

\* C12: once deactivation has completed (deactivate returned undefined or the
\* promise it returned has resolved) and every queued continuation has run, no
\* language-server subprocess is alive.
C12_NoSubprocessAfterDeactivate ==
    (phase = "deactivated" /\ ~MicrotaskPending) => Live = 0

\* C13: activation with luna.lsp.enabled true starts the client: that step takes
\* the state from Stopped to Starting and the status bar shows the starting
\* form; the state becomes Running only from Starting, by the resolution of the
\* current client's start, and the status bar then shows the ready form.
C13_AutoStartSequence ==
    [][/\ (last'.op = "activate" /\ enabled)
            => /\ State = "Stopped" /\ State' = "Starting"
               /\ statusText' = TextSpin /\ statusTooltip' = TipStarting
       /\ (State # "Running" /\ State' = "Running")
            => /\ State = "Starting" /\ last'.op = "startResolved"
               /\ statusText' = TextMoon /\ statusTooltip' = TipReady]_vars

C13_Witness ==
    /\ enabled /\ last.op = "startResolved" /\ State = "Running"
    /\ statusText = TextMoon /\ statusTooltip = TipReady

\* C14: the status bar text and tooltip are a function of the lifecycle state:
\* whenever the extension is active, no handler is suspended and the state is
\* Stopped, they are the text and tooltip shown in the state Stopped that
\* activation with luna.lsp.enabled false produces.
C14_PresentationDependsOnStateOnly ==
    (phase = "active" /\ State = "Stopped" /\ waiters = << >>)
        => (statusText = TextMoon /\ statusTooltip = TipInitial)

\* C15: while the extension is active the status bar item is visible exactly
\* when the active editor holds a Luna document, and no step other than
\* activation and a change of the active editor changes its visibility.
C15_VisibleIffLuna ==
    [][/\ phase' = "active" => (visible' <=> activeLang' = "luna")
       /\ last'.op \notin {"activate", "focus"} => visible' = visible]_vars

C15_Witness ==
    /\ phase = "active" /\ last.op = "focus"
    /\ activeLang = "other" /\ ~visible /\ State = "Running"

\* C16: the list the middleware forwards has the length of the published list;
\* its i-th entry is the i-th published diagnostic (same message, same
\* severity) and has a non-empty source, which is 'luna' where the published
\* diagnostic had no source or an empty one.
C16_RelayTagsInOrder ==
    last.op = "handleDiagnostics" =>
        /\ Len(last.forwarded) = Len(last.diagnostics)
        /\ \A i \in 1 .. Len(last.diagnostics) :
              LET d == last.diagnostics[i]
                  t == last.forwarded[i]
              IN  /\ t.message = d.message
                  /\ t.severity = d.severity
                  /\ "source" \in DOMAIN t /\ t.source # ""
                  /\ ("source" \notin DOMAIN d \/ d.source = "")
                        => t.source = "luna"

C16_Witness ==
    /\ last.op = "handleDiagnostics"
    /\ Len(last.diagnostics) = 2
    /\ "source" \notin DOMAIN last.diagnostics[1]
    /\ "source" \in DOMAIN last.diagnostics[2]
    /\ last.diagnostics[2].source = "borrow_checker"
    /\ last.diagnostics[1].message # last.diagnostics[2].message
    /\ last.forwarded[1].source = "luna"

\* C17: the middleware changes no field other than source, and a diagnostic
\* published with a non-empty source is forwarded equal to itself.
C17_RelayChangesOnlySource ==
    last.op = "handleDiagnostics" =>
        \A i \in 1 .. Len(last.diagnostics) :
            LET d == last.diagnostics[i]
                t == last.forwarded[i]
            IN  /\ DOMAIN t = DOMAIN d \cup {"source"}
                /\ \A f \in DOMAIN d \ {"source"} : t[f] = d[f]
                /\ ("source" \in DOMAIN d /\ d.source # "") => t = d

C17_Witness ==
    /\ last.op = "handleDiagnostics"
    /\ Len(last.diagnostics) = 1
    /\ "source" \in DOMAIN last.diagnostics[1]
    /\ last.diagnostics[1].source = "borrow_checker"
    /\ last.forwarded[1] = last.diagnostics[1]

\* C18: luna.run, luna.build, luna.check and luna.formatFile, invoked without an
\* active editor or with a document that is not a Luna document, show one
\* warning and do nothing else: no save, no terminal, no format request, no
\* log line, and the client, the sessions, the suspended handlers and the
\* status bar are unchanged.
C18_InvalidFileOnlyWarns ==
    [][(last'.op \in {"run", "build", "check", "formatFile"} /\ activeLang # "luna")
         => /\ last'.fx = (IF activeLang = "none" THEN {"warnNoEditor"}
                                                  ELSE {"warnNotLuna"})
            /\ UNCHANGED << phase, enabled, activeLang, client, clients, waiters,
                            statusText, statusTooltip, visible >>]_vars

C18_Witness ==
    /\ last = Did("build", {"warnNotLuna"})
    /\ activeLang = "other" /\ State = "Running"

\* C19: a configuration-change notification that does not affect
\* luna.lsp.enabled spawns nothing, calls no stop, and leaves the setting, the
\* client, the sessions, the suspended handlers and the status bar unchanged.
C19_OtherSettingNoTransition ==
    [][last'.op = "config:path"
         => /\ last'.fx = {}
            /\ UNCHANGED << phase, enabled, activeLang, client, clients, waiters,
                            statusText, statusTooltip, visible >>]_vars

C19_Witness ==
    /\ last.op = "config:path"
    /\ enabled /\ client = 0 /\ phase = "active"

\* C20: every failed lifecycle operation (a rejected start, a rejected stop) is
\* observable: the step in which it fails shows a notification, writes an
\* output-channel line or changes the status bar.
C20_FailuresObservable ==
    [][last'.op \in {"startRejected", "stopRejected"}
         => \/ last'.fx \cap {"errorMessage", "logFailed", "logStopFailed"} # {}
            \/ << statusText, statusTooltip >>' # << statusText, statusTooltip >>]_vars

\* C21: luna.run, luna.build and luna.check on a Luna document save the
\* document before anything else, create one terminal in the invocation and
\* send the command line to it after the save and after the creation; the
\* client, the sessions and the suspended handlers are unchanged.
C21_SaveThenFreshTerminal ==
    [][(last'.op \in {"run", "build", "check"} /\ activeLang = "luna")
         => LET s == last'.steps
                At(x) == {i \in 1 .. Len(s) : s[i] = x}
            IN  /\ s[1] = "save"
                /\ Cardinality(At("createTerminal")) = 1
                /\ Cardinality(At("sendText")) = 1
                /\ \A i \in At("sendText") :
                      \A j \in At("save") \cup At("createTerminal") : j < i
                /\ State' = State
                /\ UNCHANGED << client, clients, waiters >>]_vars

C21_Witness ==
    /\ last.op = "check" /\ activeLang = "luna"
    /\ "sendText" \in last.fx /\ State = "Starting"

\* C22: the configuration handler and restart call client.stop() only on a
\* client whose start has settled: termination is never requested in the state
\* Starting.
C22_NoStopRequestWhileStarting ==
    [][(last'.op \in {"config:lsp.enabled", "restartLsp"} /\ "stopCall" \in last'.fx)
         => State # "Starting"]_vars

\* C23: while the extension is active and no handler is suspended, the status
\* bar shows the form of the current lifecycle state: starting form in
\* Starting, ready form in Running, error form in Error, and the moon text with
\* the initial or the stopped tooltip in Stopped.
C23_StatusMatchesState ==
    (phase = "active" /\ waiters = << >>)
        => /\ State = "Starting"
                => statusText = TextSpin /\ statusTooltip = TipStarting
           /\ State = "Running"
                => statusText = TextMoon /\ statusTooltip = TipReady
           /\ State = "Error"
                => statusText = TextError /\ statusTooltip = TipError
           /\ State = "Stopped"
                => statusText = TextMoon /\ statusTooltip \in {TipInitial, TipStopped}

\* C24: no two handlers are suspended on client.stop() of the same client.
C24_OneHandlerPerSession ==
    \A i, j \in 1 .. Len(waiters) :
        (/\ i # j
         /\ waiters[i].pc = "awaitStop"
         /\ waiters[j].pc = "awaitStop") => waiters[i].c # waiters[j].c

\* C25: once client.stop() has been called on the current client, no handler
\* that reads the session (the configuration handler, luna.formatFile,
\* luna.restartLsp) runs in a state where that session is still recorded as
\* Running.
C25_TornDownNotSeenRunning ==
    [][(/\ last'.op \in {"formatFile", "config:lsp.enabled", "restartLsp"}
        /\ \E i \in 1 .. Len(waiters) :
              waiters[i].pc = "awaitStop" /\ waiters[i].c = client)
         => State # "Running"]_vars

\* C26: with configuration notifications only and no failure, whenever the
\* extension is active and no handler is suspended, a session exists exactly
\* when luna.lsp.enabled is true.
C26_SessionIffEnabled ==
    (phase = "active" /\ waiters = << >>) => (Live = 1 <=> enabled)

\* C27: a rejected start leaves `client` as it is, so the state Error has the
\* failed client as handle; `client` becomes undefined only in stopLspClient
\* after a stop that resolved; and in the state Error the handlers that test
\* `client` act as in Running: enabling the setting starts nothing,
\* luna.formatFile on a Luna document sends the format request, and
\* luna.restartLsp calls client.stop().
C27_FailedClientKept ==
    [][/\ last'.op = "startRejected" => client' = client
       /\ (client # 0 /\ client' = 0) => last'.op = "stopLspClient"
       /\ State = "Error" =>
            /\ (last'.op = "config:lsp.enabled" /\ enabled')
                  => (~Spawned /\ client' = client /\ last'.fx = {})
            /\ (last'.op = "formatFile" /\ activeLang = "luna")
                  => "formatDocument" \in last'.fx
            /\ last'.op = "restartLsp" => "stopCall" \in last'.fx]_vars

C27_Witness ==
    /\ State = "Error" /\ enabled /\ phase = "active"
    /\ last = Did("config:lsp.enabled", {})

\* C28: restartLspClient starts a client whatever the value of
\* luna.lsp.enabled: the step after its awaited stop constructs a client and
\* the state becomes Starting, without changing the setting; and while the
\* setting is false, a configuration notification that does not affect it
\* leaves that session alone.
C28_RestartIgnoresSetting ==
    [][/\ last'.op = "restartStart"
            => (Spawned /\ State' = "Starting" /\ enabled' = enabled)
       /\ (~enabled /\ client # 0 /\ last'.op = "config:path")
            => (client' = client /\ clients' = clients /\ waiters' = waiters)]_vars

C28_Witness ==
    /\ ~enabled /\ phase = "active"
    /\ last.op = "restartStart" /\ State = "Starting"

====
